---- MODULE Spec2Model ----
(***************************************************************************)
(* A model of auto_convert.py: a directory watcher that converts images to *)
(* PNG and videos to MP4.  The state is the input directory, the output    *)
(* tree, the handler's in-progress set, the worker threads started by      *)
(* _schedule, and the main thread with its startup bulk pass.              *)
(*                                                                         *)
(* File names are sequences of one-character strings, so that suffix, stem *)
(* and lower() are computed the way pathlib and str compute them.          *)
(***************************************************************************)
EXTENDS Integers, Sequences, FiniteSets, TLC

\* ------------------------------------------------------------------ bounds
\* Number of polls that fit in the stabilization timeout of a worker thread
\* (timeout / interval, 300.0 / 0.5 in the source), scaled down.
TimeoutPolls == 4
\* Largest timeout, in polls, of a wait_for_file_ready call taken on its own.
ProbePolls == 5
\* Largest size a polled file is seen with in those calls.
ProbeMaxSize == 2
\* Largest file size the environment writes while the program runs.
MaxSize == 1

\* ------------------------------------------------------- program constants
\* wait_for_file_ready(..., stable_checks: int = 3, ...)
StableChecks == 3
\* last_size = -1
InitialLastSize == -1
\* Outcome of path.stat() when it raises FileNotFoundError.
NotFound == -2
\* Outcome of path.stat() when it raises another OSError.
StatError == -3

\* ------------------------------------------------------------- characters
UpperCase ==
    <<"A","B","C","D","E","F","G","H","I","J","K","L","M",
      "N","O","P","Q","R","S","T","U","V","W","X","Y","Z">>
LowerCase ==
    <<"a","b","c","d","e","f","g","h","i","j","k","l","m",
      "n","o","p","q","r","s","t","u","v","w","x","y","z">>

IndexIn(seq, c) ==
    IF \E i \in 1..Len(seq) : seq[i] = c
    THEN CHOOSE i \in 1..Len(seq) : seq[i] = c
    ELSE 0

\* str.lower() on one character
LowerChar(c) ==
    IF IndexIn(UpperCase, c) > 0 THEN LowerCase[IndexIn(UpperCase, c)] ELSE c

\* str.lower()
lower(s) == [k \in 1..Len(s) |-> LowerChar(s[k])]

\* ord(): the code point, which orders strings and hence Path objects
CodePoint(c) ==
    IF c = "." THEN 46
    ELSE IF IndexIn(UpperCase, c) > 0 THEN 64 + IndexIn(UpperCase, c)
    ELSE IF IndexIn(LowerCase, c) > 0 THEN 96 + IndexIn(LowerCase, c)
    ELSE 0

\* str.rfind("."), 1-based; 0 when there is no dot
RFindDot(name) ==
    IF \E i \in 1..Len(name) : name[i] = "."
    THEN CHOOSE i \in 1..Len(name) :
            name[i] = "." /\ \A j \in (i+1)..Len(name) : name[j] # "."
    ELSE 0

\* PurePath.suffix: the final component's last dot and what follows it, unless
\* the dot is the first or the last character of the name
suffix(name) ==
    LET i == RFindDot(name)
    IN  IF 1 < i /\ i < Len(name) THEN SubSeq(name, i, Len(name)) ELSE <<>>

\* PurePath.stem: the name without its suffix
stem(name) ==
    LET i == RFindDot(name)
    IN  IF 1 < i /\ i < Len(name) THEN SubSeq(name, 1, i - 1) ELSE name

\* str.startswith(".")
StartsWithDot(name) == Len(name) > 0 /\ name[1] = "."

\* a < b for two names, as Python compares str (and Path) objects
RECURSIVE NameLess(_, _)
NameLess(a, b) ==
    IF a = <<>> THEN b # <<>>
    ELSE IF b = <<>> THEN FALSE
    ELSE IF CodePoint(Head(a)) # CodePoint(Head(b))
         THEN CodePoint(Head(a)) < CodePoint(Head(b))
    ELSE NameLess(Tail(a), Tail(b))

\* sorted(S) for a set of names
RECURSIVE Sorted(_)
Sorted(S) ==
    IF S = {} THEN <<>>
    ELSE LET m == CHOOSE x \in S : \A y \in S \ {x} : NameLess(x, y)
         IN  <<m>> \o Sorted(S \ {m})

\* ------------------------------------------------------------ file names
\* IMAGE_EXTENSIONS
IMAGE_EXTENSIONS ==
    { <<".","j","p","g">>, <<".","j","p","e","g">>, <<".","b","m","p">>,
      <<".","g","i","f">>, <<".","t","i","f">>, <<".","t","i","f","f">>,
      <<".","w","e","b","p">>, <<".","h","e","i","c">>, <<".","h","e","i","f">> }
\* VIDEO_EXTENSIONS
VIDEO_EXTENSIONS ==
    { <<".","m","p","4">>, <<".","m","o","v">>, <<".","m","k","v">>,
      <<".","a","v","i">>, <<".","m","4","v">>, <<".","w","m","v">>,
      <<".","f","l","v">>, <<".","w","e","b","m">> }

PngExt == <<".","p","n","g">>
Mp4Ext == <<".","m","p","4">>

\* The entries the input directory can hold.
AJpg   == <<"a",".","j","p","g">>
ABmp   == <<"a",".","b","m","p">>
CMov   == <<"c",".","M","O","V">>
HidJpg == <<".","t",".","j","p","g">>
NTxt   == <<"n",".","t","x","t">>
DGif   == <<"d",".","g","i","f">>

\* The file that is being written, replaced or removed while the program runs.
VolatileFiles == {AJpg}
\* Files that lie complete in the input directory all the time.
SettledFiles == {ABmp, CMov, HidJpg, NTxt}
\* A subdirectory of the input directory.
DirEntries == {DGif}
Entries == VolatileFiles \cup SettledFiles \cup DirEntries

Sizes == 0..MaxSize

\* --------------------------------------------------------------- the state
VARIABLES
    config,       \* ConversionConfig: the extension sets and --no-process-existing
    fs,           \* input directory: entry -> size, or NotFound
    out,          \* output tree: destination path -> the file there
    dirs,         \* the output subdirectories that exist
    in_progress,  \* ConversionHandler._in_progress
    tasks,        \* the running calls: thread key -> frames of that key
    main,         \* the main thread: where it is in main()
    last,         \* what the most recent step did, if it was a _schedule call
    probe         \* one wait_for_file_ready call on its own, with the polls it saw

vars == <<config, fs, out, dirs, in_progress, tasks, main, last, probe>>

\* The key of the main thread's frame in tasks; worker threads are keyed by path.
MainKey == <<"main">>
Keys == Entries \cup {MainKey}

\* Path.exists()
exists(p) == fs[p] # NotFound
\* Path.is_file()
is_file(p) == exists(p) /\ p \notin DirEntries
\* path.stat().st_size, or the FileNotFoundError outcome
stat(p) == fs[p]

\* dest_dir / (src.stem + ".png"), dest_dir being config.image_output_dir
PngPath == [p \in Entries |-> <<"images", stem(p) \o PngExt>>]
ImageDest(p) == PngPath[p]
\* dest_dir / (src.stem + ".mp4"), dest_dir being config.video_output_dir
Mp4Path == [p \in Entries |-> <<"videos", stem(p) \o Mp4Ext>>]
VideoDest(p) == Mp4Path[p]
Dests == {ImageDest(p) : p \in Entries} \cup {VideoDest(p) : p \in Entries}

\* No file at a destination; a file there is the source it was made from and
\* whether its writer has finished it.
NoFile == [src |-> <<>>, complete |-> FALSE]
FileFrom(p, done) == [src |-> p, complete |-> done]

\* ------------------------------------------------------ wait_for_file_ready
\* The loop's variables; elapsed counts the sleeps of one interval since the
\* deadline was set, ret is "running" until the function returns or raises.
InitLoop(timeout, stable_checks) ==
    [timeout |-> timeout, stable_checks |-> stable_checks,
     last_size |-> InitialLastSize, stable_count |-> 0, elapsed |-> 0,
     ret |-> "running"]

\* The loop without its deadline.
NoDeadline(w) == TRUE

\* time.monotonic() < deadline
BeforeDeadline(w) == w.elapsed < w.timeout

\* The wait given up at the first poll that finds no file.
OnMissingGivesUp(w) == [w EXCEPT !.ret = "false"]

\* except FileNotFoundError: time.sleep(interval); continue
OnMissing(w) == [w EXCEPT !.elapsed = @ + 1]

\* The test without "and size > 0".
OnSizeAllowEmpty(w, size) ==
    IF size = w.last_size
    THEN IF w.stable_count + 1 >= w.stable_checks
         THEN [w EXCEPT !.stable_count = @ + 1, !.ret = "true"]
         ELSE [w EXCEPT !.stable_count = @ + 1, !.elapsed = @ + 1]
    ELSE [w EXCEPT !.stable_count = 0, !.last_size = size, !.elapsed = @ + 1]

\* if size == last_size and size > 0: ... else: ...; time.sleep(interval)
OnSize(w, size) ==
    IF size = w.last_size /\ size > 0
    THEN IF w.stable_count + 1 >= w.stable_checks
         THEN [w EXCEPT !.stable_count = @ + 1, !.ret = "true"]
         ELSE [w EXCEPT !.stable_count = @ + 1, !.elapsed = @ + 1]
    ELSE [w EXCEPT !.stable_count = 0, !.last_size = size, !.elapsed = @ + 1]

\* One pass through the while loop, ob being what path.stat() gives this time.
WaitIteration(w, ob) ==
    IF ~BeforeDeadline(w) THEN [w EXCEPT !.ret = "false"]
    ELSE IF ob = StatError THEN [w EXCEPT !.ret = "raised"]
    ELSE IF ob = NotFound THEN OnMissing(w)
    ELSE OnSize(w, ob)

Observations == (0..ProbeMaxSize) \cup {NotFound, StatError}

\* wait_for_file_ready on its own: any observation at every poll.
ProbePoll ==
    /\ probe.w.ret = "running"
    /\ BeforeDeadline(probe.w)
    /\ \E ob \in Observations :
          probe' = [w |-> WaitIteration(probe.w, ob), obs |-> Append(probe.obs, ob)]
    /\ UNCHANGED <<config, fs, out, dirs, in_progress, tasks, main, last>>

ProbeDeadline ==
    /\ probe.w.ret = "running"
    /\ ~BeforeDeadline(probe.w)
    /\ probe' = [probe EXCEPT !.w = WaitIteration(probe.w, NotFound)]
    /\ UNCHANGED <<config, fs, out, dirs, in_progress, tasks, main, last>>

\* ------------------------------------------------------------ configuration
\* ConversionConfig as main() builds it from the default command line, with
\* and without --no-process-existing.
Configs ==
    { [image_exts |-> IMAGE_EXTENSIONS, video_exts |-> VIDEO_EXTENSIONS,
       no_process_existing |-> b] : b \in BOOLEAN }

\* normalise_extensions: empty entries dropped, the dot put in front where it
\* is missing, lower case
normalise_extensions(exts) ==
    { lower(IF Head(ext) # "." THEN <<".">> \o ext ELSE ext) :
         ext \in {x \in exts : x # <<>>} }

\* Values of --image-ext / --video-ext on the command line.
ExtArgs == { <<"J","P","G">>, <<".","m","o","v">>, <<>> }
\* args.image_ext / args.video_ext when the option is not given
NoArg == {<<"None">>}

\* ConversionConfig as main() builds it from --image-ext and --video-ext, each
\* given with some of the values ExtArgs or not given.
ArgConfigs ==
    { [image_exts |-> IF ia = NoArg THEN IMAGE_EXTENSIONS ELSE normalise_extensions(ia),
       video_exts |-> IF va = NoArg THEN VIDEO_EXTENSIONS ELSE normalise_extensions(va),
       no_process_existing |-> b] :
         ia \in SUBSET ExtArgs \cup {NoArg},
         va \in SUBSET ExtArgs \cup {NoArg},
         b \in BOOLEAN }

\* path.suffix.lower() of every entry
LowerSuffix == [p \in Entries |-> lower(suffix(p))]

\* suffix = path.suffix.lower(); suffix in config.image_exts
IsImage(p) == LowerSuffix[p] \in config.image_exts
\* suffix in config.video_exts
IsVideo(p) == LowerSuffix[p] \in config.video_exts

\* The filter with the suffix test alone.
ShouldIgnoreBySuffixOnly(p) == ~IsImage(p) /\ ~IsVideo(p)

\* ConversionHandler._should_ignore
should_ignore(p) ==
    \/ (~IsImage(p) /\ ~IsVideo(p))
    \/ StartsWithDot(p)
    \/ ~exists(p)

\* ------------------------------------------------------------------ frames
\* A frame is one running call of _process_path (a worker thread, keyed by its
\* path) or of a converter called by the bulk pass (keyed MainKey).
NewFrame(p, pc) ==
    [pc |-> pc, path |-> p, w |-> InitLoop(TimeoutPolls, StableChecks),
     outcome |-> "none"]

RemoveAt(seq, i) == SubSeq(seq, 1, i - 1) \o SubSeq(seq, i + 1, Len(seq))

CheckPcs == {"img_check", "vid_check"}
\* Where the capability itself (Image.open / img.save, the ffmpeg subprocess) runs.
CapabilityPcs == {"img_save", "vid_run", "vid_running"}
ConverterPcs == CheckPcs \cup CapabilityPcs

\* output_path of the converter a frame is in
Dest(f) ==
    IF f.pc \in {"img_check", "img_save"} THEN ImageDest(f.path) ELSE VideoDest(f.path)

\* The frame moves on inside the same call.
Goto(k, i, pc) ==
    /\ tasks' = [tasks EXCEPT ![k][i].pc = pc]
    /\ UNCHANGED main

\* The converter returns with an outcome: a worker goes on to its finally
\* block, the bulk pass to the next file of its loop.
Return(k, i, oc) ==
    IF k = MainKey
    THEN /\ tasks' = [tasks EXCEPT ![k] = <<>>]
         /\ main' = [main EXCEPT
                !.pc = "bulk",
                !.todo = Tail(@),
                !.results = @ \cup {<<tasks[k][i].path, oc>>},
                !.failed = IF oc = "failed" THEN @ \cup {tasks[k][i].path} ELSE @]
    ELSE /\ tasks' = [tasks EXCEPT ![k][i].pc = "finally", ![k][i].outcome = oc]
         /\ UNCHANGED main

\* An exception leaves the converter uncaught: a worker runs its finally block
\* and dies, the main thread leaves main() with the exception.
Raise(k, i) ==
    IF k = MainKey
    THEN /\ tasks' = [tasks EXCEPT ![k] = <<>>]
         /\ main' = [main EXCEPT !.pc = "crashed"]
    ELSE /\ tasks' = [tasks EXCEPT ![k][i].pc = "finally", ![k][i].outcome = "raised"]
         /\ UNCHANGED main

\* ------------------------------------------------- ConversionHandler events
\* The membership test left out.
HeldNever(path) == FALSE

\* if path in self._in_progress
Held(path) == path \in in_progress

\* The return under the lock left out: a held path gets another thread.
ScheduleWithoutReturn(path) ==
    IF should_ignore(path)
    THEN /\ last' = "rejected"
         /\ UNCHANGED <<in_progress, tasks>>
    ELSE /\ in_progress' = in_progress \cup {path}
         /\ tasks' = [tasks EXCEPT ![path] = Append(@, NewFrame(path, "wait"))]
         /\ last' = IF Held(path) THEN "dropped" ELSE "started"

\* ConversionHandler._schedule
Schedule(path) ==
    IF should_ignore(path)
    THEN /\ last' = "rejected"
         /\ UNCHANGED <<in_progress, tasks>>
    ELSE IF Held(path)
    THEN /\ last' = "dropped"
         /\ UNCHANGED <<in_progress, tasks>>
    ELSE /\ in_progress' = in_progress \cup {path}
         /\ tasks' = [tasks EXCEPT ![path] = Append(@, NewFrame(path, "wait"))]
         /\ last' = "started"

\* The observer started at the beginning of main().
ObservingFromStart == TRUE

\* The observer thread is alive: from observer.start() to observer.stop().
Observing == main.pc \in {"watch", "stopping"}

\* The handler joins the thread of the path before it returns: it waits for
\* as long as a task of the path runs.
OnCreatedJoins(p) ==
    /\ Observing
    /\ tasks[p] = <<>>
    /\ IF p \in DirEntries
       THEN last' = "rejected" /\ UNCHANGED <<in_progress, tasks>>
       ELSE Schedule(p)
    /\ UNCHANGED <<config, fs, out, dirs, main, probe>>

\* ConversionHandler.on_created; event.is_directory holds for a directory entry
OnCreated(p) ==
    /\ Observing
    /\ IF p \in DirEntries
       THEN last' = "rejected" /\ UNCHANGED <<in_progress, tasks>>
       ELSE Schedule(p)
    /\ UNCHANGED <<config, fs, out, dirs, main, probe>>

\* ConversionHandler.on_modified
OnModified(p) ==
    /\ Observing
    /\ IF p \in DirEntries
       THEN last' = "rejected" /\ UNCHANGED <<in_progress, tasks>>
       ELSE Schedule(p)
    /\ UNCHANGED <<config, fs, out, dirs, main, probe>>

\* ------------------------------------------------------------ _process_path
\* The test of the result left out: the task goes on to the converter after
\* a timeout as well.
WaitStepIgnoresResult(k, i) ==
    /\ tasks[k][i].pc = "wait"
    /\ \E ob \in {stat(tasks[k][i].path), StatError} :
         LET w2 == WaitIteration(tasks[k][i].w, ob)
         IN  tasks' = [tasks EXCEPT ![k][i] =
                CASE w2.ret = "running" -> [@ EXCEPT !.w = w2]
                  [] w2.ret \in {"true", "false"} ->
                        [@ EXCEPT !.w = w2, !.pc = "classify"]
                  [] OTHER ->
                        [@ EXCEPT !.w = w2, !.pc = "finally", !.outcome = "raised"]]
    /\ last' = "none"
    /\ UNCHANGED <<config, fs, out, dirs, in_progress, main, probe>>

\* One pass of wait_for_file_ready's loop in a worker, and what _process_path
\* does when the call returns or raises.
WaitStep(k, i) ==
    /\ tasks[k][i].pc = "wait"
    /\ \E ob \in {stat(tasks[k][i].path), StatError} :
         LET w2 == WaitIteration(tasks[k][i].w, ob)
         IN  tasks' = [tasks EXCEPT ![k][i] =
                CASE w2.ret = "running" -> [@ EXCEPT !.w = w2]
                  [] w2.ret = "true"    -> [@ EXCEPT !.w = w2, !.pc = "classify"]
                  [] w2.ret = "false"   ->
                        [@ EXCEPT !.w = w2, !.pc = "finally", !.outcome = "unstable"]
                  [] OTHER              ->
                        [@ EXCEPT !.w = w2, !.pc = "finally", !.outcome = "raised"]]
    /\ last' = "none"
    /\ UNCHANGED <<config, fs, out, dirs, in_progress, main, probe>>

\* The two tests in the other order: the video set wins.
ClassifyVideoFirst(k, i) ==
    /\ tasks[k][i].pc = "classify"
    /\ LET p == tasks[k][i].path
       IN  IF IsVideo(p)
           THEN /\ dirs' = dirs \cup {"videos"}
                /\ tasks' = [tasks EXCEPT ![k][i].pc = "vid_check"]
           ELSE IF IsImage(p)
           THEN /\ dirs' = dirs \cup {"images"}
                /\ tasks' = [tasks EXCEPT ![k][i].pc = "img_check"]
           ELSE /\ dirs' = dirs
                /\ tasks' = [tasks EXCEPT ![k][i].pc = "finally",
                                          ![k][i].outcome = "unrecognized"]
    /\ last' = "none"
    /\ UNCHANGED <<config, fs, out, in_progress, main, probe>>

\* suffix = path.suffix.lower(); ensure_directory(...); the converter is called
Classify(k, i) ==
    /\ tasks[k][i].pc = "classify"
    /\ LET p == tasks[k][i].path
       IN  IF IsImage(p)
           THEN /\ dirs' = dirs \cup {"images"}
                /\ tasks' = [tasks EXCEPT ![k][i].pc = "img_check"]
           ELSE IF IsVideo(p)
           THEN /\ dirs' = dirs \cup {"videos"}
                /\ tasks' = [tasks EXCEPT ![k][i].pc = "vid_check"]
           ELSE /\ dirs' = dirs
                /\ tasks' = [tasks EXCEPT ![k][i].pc = "finally",
                                          ![k][i].outcome = "unrecognized"]
    /\ last' = "none"
    /\ UNCHANGED <<config, fs, out, in_progress, main, probe>>

\* The discard at the end of the try body instead of in a finally block: a
\* task that returns early or raises keeps its entry.
ReleaseAfterConversion(k, i) ==
    /\ tasks[k][i].pc = "finally"
    /\ in_progress' =
          IF tasks[k][i].outcome \in {"unstable", "raised"}
          THEN in_progress
          ELSE in_progress \ {tasks[k][i].path}
    /\ tasks' = [tasks EXCEPT ![k] = RemoveAt(@, i)]
    /\ last' = "none"
    /\ UNCHANGED <<config, fs, out, dirs, main, probe>>

\* finally: with self._lock: self._in_progress.discard(path); the thread ends
Release(k, i) ==
    /\ tasks[k][i].pc = "finally"
    /\ in_progress' = in_progress \ {tasks[k][i].path}
    /\ tasks' = [tasks EXCEPT ![k] = RemoveAt(@, i)]
    /\ last' = "none"
    /\ UNCHANGED <<config, fs, out, dirs, main, probe>>

\* ------------------------------------------------------ convert_image_to_png
\* The existence test left out.
OutputExistsNever(f) == FALSE

\* if output_path.exists(): return
OutputExists(f) == out[Dest(f)] # NoFile

\* The source can be decoded: it is there and not empty.
Readable(p) == exists(p) /\ fs[p] > 0

ImgCheck(k, i) ==
    /\ tasks[k][i].pc = "img_check"
    /\ IF OutputExists(tasks[k][i])
       THEN Return(k, i, "skipped_existing")
       ELSE Goto(k, i, "img_save")
    /\ last' = "none"
    /\ UNCHANGED <<config, fs, out, dirs, in_progress, probe>>

\* Image.open(src) ... img.save(output_path, format="PNG") succeeds
ImgSaveOk(k, i) ==
    /\ tasks[k][i].pc = "img_save"
    /\ Readable(tasks[k][i].path)
    /\ out' = [out EXCEPT ![Dest(tasks[k][i])] = FileFrom(tasks[k][i].path, TRUE)]
    /\ Return(k, i, "converted")
    /\ last' = "none"
    /\ UNCHANGED <<config, fs, dirs, in_progress, probe>>

\* except UnidentifiedImageError / except Exception: logged, return
ImgSaveFail(k, i) ==
    /\ tasks[k][i].pc = "img_save"
    /\ Return(k, i, "failed")
    /\ last' = "none"
    /\ UNCHANGED <<config, fs, out, dirs, in_progress, probe>>

\* ------------------------------------------------------ convert_video_to_mp4
VidCheck(k, i) ==
    /\ tasks[k][i].pc = "vid_check"
    /\ IF OutputExists(tasks[k][i])
       THEN Return(k, i, "skipped_existing")
       ELSE Goto(k, i, "vid_run")
    /\ last' = "none"
    /\ UNCHANGED <<config, fs, out, dirs, in_progress, probe>>

\* subprocess.run raises FileNotFoundError: no ffmpeg binary
VidNoBinary(k, i) ==
    /\ tasks[k][i].pc = "vid_run"
    /\ Return(k, i, "failed")
    /\ last' = "none"
    /\ UNCHANGED <<config, fs, out, dirs, in_progress, probe>>

\* subprocess.run raises another OSError (the binary is not executable):
\* neither except clause catches it
VidSpawnError(k, i) ==
    /\ tasks[k][i].pc = "vid_run"
    /\ Raise(k, i)
    /\ last' = "none"
    /\ UNCHANGED <<config, fs, out, dirs, in_progress, probe>>

\* ffmpeg -y opens output_path for writing, whatever is there
VidOpenOutput(k, i) ==
    /\ tasks[k][i].pc = "vid_run"
    /\ out' = [out EXCEPT ![Dest(tasks[k][i])] = FileFrom(tasks[k][i].path, FALSE)]
    /\ Goto(k, i, "vid_running")
    /\ last' = "none"
    /\ UNCHANGED <<config, fs, dirs, in_progress, probe>>

\* ffmpeg exits 0
VidExitOk(k, i) ==
    /\ tasks[k][i].pc = "vid_running"
    /\ Readable(tasks[k][i].path)
    /\ out' = [out EXCEPT ![Dest(tasks[k][i])] = FileFrom(tasks[k][i].path, TRUE)]
    /\ Return(k, i, "converted")
    /\ last' = "none"
    /\ UNCHANGED <<config, fs, dirs, in_progress, probe>>

\* The unlink left out: what ffmpeg wrote before it failed stays.
VidExitNonzeroKeepsOutput(k, i) ==
    /\ tasks[k][i].pc \in {"vid_run", "vid_running"}
    /\ out' = out
    /\ Return(k, i, "failed")
    /\ last' = "none"
    /\ UNCHANGED <<config, fs, dirs, in_progress, probe>>

\* except subprocess.CalledProcessError: if output_path.exists(): unlink
VidExitNonzero(k, i) ==
    /\ tasks[k][i].pc \in {"vid_run", "vid_running"}
    /\ out' = [out EXCEPT ![Dest(tasks[k][i])] = NoFile]
    /\ Return(k, i, "failed")
    /\ last' = "none"
    /\ UNCHANGED <<config, fs, dirs, in_progress, probe>>

\* --------------------------------------------------------------------- main
\* Number of times the program is started over the same directories.
MaxRuns == 2

\* process_existing_files: sorted(config.input_dir.iterdir())
BulkList ==
    /\ main.pc = "start"
    /\ ~config.no_process_existing
    /\ main' = [main EXCEPT !.pc = "bulk",
                            !.todo = Sorted({p \in Entries : exists(p)})]
    /\ last' = "none"
    /\ UNCHANGED <<config, fs, out, dirs, in_progress, tasks, probe>>

\* process_existing_files: one turn of the for loop, up to the converter call
BulkNext ==
    /\ main.pc = "bulk"
    /\ main.todo # <<>>
    /\ LET p == Head(main.todo)
       IN  IF is_file(p) /\ (IsImage(p) \/ IsVideo(p))
           THEN /\ main' = [main EXCEPT !.pc = "convert"]
                /\ IF IsImage(p)
                   THEN /\ dirs' = dirs \cup {"images"}
                        /\ tasks' = [tasks EXCEPT ![MainKey] = <<NewFrame(p, "img_check")>>]
                   ELSE /\ dirs' = dirs \cup {"videos"}
                        /\ tasks' = [tasks EXCEPT ![MainKey] = <<NewFrame(p, "vid_check")>>]
           ELSE /\ main' = [main EXCEPT !.todo = Tail(@)]
                /\ UNCHANGED <<dirs, tasks>>
    /\ last' = "none"
    /\ UNCHANGED <<config, fs, out, in_progress, probe>>

\* main: handler = ConversionHandler(config); observer.start()
StartObserver ==
    /\ \/ main.pc = "start" /\ config.no_process_existing
       \/ main.pc = "bulk" /\ main.todo = <<>>
    /\ main' = [main EXCEPT !.pc = "watch"]
    /\ last' = "none"
    /\ UNCHANGED <<config, fs, out, dirs, in_progress, tasks, probe>>

\* The program is stopped and started again on the same directories: main()
\* runs from its beginning, the output tree is what the last run left.
Restart ==
    /\ main.pc = "watch"
    /\ main.run < MaxRuns
    /\ main' = [main EXCEPT !.pc = "start", !.run = @ + 1, !.results = {}]
    /\ in_progress' = {}
    /\ tasks' = [k \in Keys |-> <<>>]
    /\ last' = "none"
    /\ UNCHANGED <<config, fs, out, dirs, probe>>

\* except KeyboardInterrupt: the interrupt ends the while True loop
Interrupt ==
    /\ main.pc = "watch"
    /\ main' = [main EXCEPT !.pc = "stopping"]
    /\ last' = "none"
    /\ UNCHANGED <<config, fs, out, dirs, in_progress, tasks, probe>>

\* finally: observer.stop(); observer.join()
StopObserver ==
    /\ main.pc = "stopping"
    /\ main' = [main EXCEPT !.pc = "stopped"]
    /\ last' = "none"
    /\ UNCHANGED <<config, fs, out, dirs, in_progress, tasks, probe>>

\* return 0; sys.exit(main()): the interpreter shuts down without joining the
\* daemon threads, which end where they are: no further statement of theirs
\* runs, their finally blocks included.
Exit ==
    /\ main.pc = "stopped"
    /\ main' = [main EXCEPT !.pc = "exited"]
    /\ tasks' = [k \in Keys |-> <<>>]
    /\ in_progress' = {}
    /\ last' = "none"
    /\ UNCHANGED <<config, fs, out, dirs, probe>>

\* ------------------------------------------------------------ environment
\* Another program writes the file: it appears, grows or is replaced.
FileWrite(p, size) ==
    /\ fs[p] # size
    /\ fs' = [fs EXCEPT ![p] = size]
    /\ last' = "none"
    /\ UNCHANGED <<config, out, dirs, in_progress, tasks, main, probe>>

\* Another program removes or renames the file.
FileRemove(p) ==
    /\ exists(p)
    /\ fs' = [fs EXCEPT ![p] = NotFound]
    /\ last' = "none"
    /\ UNCHANGED <<config, out, dirs, in_progress, tasks, main, probe>>

\* ------------------------------------------------------------------- specs
\* The state when main() is entered.
Startup ==
    /\ config \in Configs
    /\ fs \in { f \in [Entries -> Sizes \cup {NotFound}] :
                  \A p \in Entries \ VolatileFiles : f[p] = 1 }
    /\ out = [d \in Dests |-> NoFile]
    /\ dirs = {}
    /\ in_progress = {}
    /\ tasks = [k \in Keys |-> <<>>]
    /\ main = [pc |-> "start", todo |-> <<>>, run |-> 1, results |-> {}, failed |-> {}]
    /\ last = "none"

Init ==
    /\ Startup
    /\ probe = [w |-> InitLoop(TimeoutPolls, StableChecks), obs |-> <<>>]

\* A step of the converter a frame is in.
ConverterStep(k, i) ==
    \/ ImgCheck(k, i)
    \/ ImgSaveOk(k, i)
    \/ ImgSaveFail(k, i)
    \/ VidCheck(k, i)
    \/ VidNoBinary(k, i)
    \/ VidSpawnError(k, i)
    \/ VidOpenOutput(k, i)
    \/ VidExitOk(k, i)
    \/ VidExitNonzero(k, i)

\* A step of the worker thread(s) of path p.
WorkerStep(p) ==
    \E i \in 1..Len(tasks[p]) :
        \/ WaitStep(p, i)
        \/ Classify(p, i)
        \/ ConverterStep(p, i)
        \/ Release(p, i)

\* The observer delivers an event for one of the entries E.
Event(E) == \E p \in E : OnCreated(p) \/ OnModified(p)

Environment ==
    \E p \in VolatileFiles :
        \/ \E size \in Sizes : FileWrite(p, size)
        \/ FileRemove(p)

Bulk ==
    \/ BulkList
    \/ BulkNext
    \/ (main.pc = "convert" /\ ConverterStep(MainKey, 1))

Next ==
    \/ Bulk
    \/ StartObserver
    \/ Event(Entries)
    \/ \E p \in Entries : WorkerStep(p)
    \/ Environment

\* The whole program.
Spec == Init /\ [][Next]_vars

\* The program started with --no-process-existing: the event-driven pipeline.
\* The events are those of the entries E.
InitWatch == Init /\ config.no_process_existing
NextWatch(E) ==
    \/ StartObserver
    \/ Event(E)
    \/ \E p \in E : WorkerStep(p)
    \/ Environment

\* An image that is being written and a video, with the entries the filter
\* rejects.
WatchEntries == Entries \ {ABmp}
SpecWatch == InitWatch /\ [][NextWatch(WatchEntries)]_vars

\* Two images of the same stem, with the entries the filter rejects.
CollideEntries == Entries \ {CMov}
SpecCollide == InitWatch /\ [][NextWatch(CollideEntries)]_vars

\* The same with every worker thread scheduled again and again, and every
\* call it makes returning.
FairWatch == SpecWatch /\ \A p \in WatchEntries : WF_vars(WorkerStep(p))

\* The startup bulk pass over a directory nobody else touches, the program
\* being run MaxRuns times.
InitBulk == Init /\ ~config.no_process_existing
NextBulk ==
    \/ Bulk
    \/ StartObserver
    \/ Restart
SpecBulk == InitBulk /\ [][NextBulk]_vars

\* The event-driven pipeline up to the end of the process: the interrupt, the
\* observer stopped and joined, exit code 0.
NextShutdown ==
    \/ NextWatch(WatchEntries)
    \/ Interrupt
    \/ StopObserver
    \/ Exit
SpecShutdown == InitWatch /\ [][NextShutdown]_vars

\* The bulk pass and the event-driven pipeline under every configuration of
\* ArgConfigs, over a directory nobody else touches; the events are those of
\* the video, the image and the text file.
ClassifyEntries == {AJpg, CMov, NTxt}
InitClassify ==
    /\ config \in ArgConfigs
    /\ fs = [p \in Entries |-> 1]
    /\ out = [d \in Dests |-> NoFile]
    /\ dirs = {}
    /\ in_progress = {}
    /\ tasks = [k \in Keys |-> <<>>]
    /\ main = [pc |-> "start", todo |-> <<>>, run |-> 1, results |-> {}, failed |-> {}]
    /\ last = "none"
    /\ probe = [w |-> InitLoop(TimeoutPolls, StableChecks), obs |-> <<>>]
NextClassify ==
    \/ Bulk
    \/ StartObserver
    \/ Event(ClassifyEntries)
    \/ \E p \in ClassifyEntries : WorkerStep(p)
SpecClassify == InitClassify /\ [][NextClassify]_vars

\* The event-driven pipeline with the events of one file, the image that is
\* being written, and its worker thread scheduled again and again.
LiveEntries == {AJpg}
SpecLive == InitWatch /\ [][NextWatch(LiveEntries)]_vars
FairLive == SpecLive /\ WF_vars(WorkerStep(AJpg))

\* wait_for_file_ready against every sequence of poll results.
NextProbe == ProbePoll \/ ProbeDeadline
InitProbe ==
    /\ Startup
    /\ config.no_process_existing
    /\ \A p \in VolatileFiles : fs[p] = NotFound
    /\ probe \in { [w |-> InitLoop(timeout, stable_checks), obs |-> <<>>] :
                      timeout \in 1..ProbePolls, stable_checks \in 1..StableChecks }
SpecProbe ==
    /\ InitProbe
    /\ [][NextProbe]_vars

\* ------------------------------------------------------------------ claims
\* C1: in every reachable state at most one worker task is active for any
\* path, a task being active from its acceptance in _schedule (the frame is
\* created) to its release in the finally block (the frame is removed); and an
\* active task's path is in the in-progress set.
C1_AtMostOneTaskPerPath ==
    \A p \in Entries :
        /\ Len(tasks[p]) <= 1
        /\ Len(tasks[p]) = 1 => p \in in_progress

\* A task for the video is converting while another event for it has just
\* been turned away.
C1_Witness ==
    /\ last = "dropped"
    /\ in_progress = {CMov}
    /\ Len(tasks[CMov]) = 1
    /\ tasks[CMov][1].pc = "vid_running"

\* C2 (as claimed): once a file exists at a destination, no step replaces it
\* by the output of another source, rewrites it once complete, or deletes it.
C2_NeverOverwritten ==
    [][ \A d \in Dests :
          out[d] # NoFile =>
             /\ out'[d].src = out[d].src
             /\ out[d].complete => out'[d] = out[d] ]_vars

\* C3: whenever a task of path P finishes (its frame goes), whatever its
\* outcome, P is not in the in-progress set afterwards; and every accepted P
\* eventually leaves the set when the worker threads keep running.
C3_ReleasedOnEveryExit ==
    /\ [][ \A p \in Entries :
             Len(tasks'[p]) < Len(tasks[p]) => p \notin in_progress' ]_vars
    /\ \A p \in Entries : []<>(p \notin in_progress)

\* The video has been converted by a worker, which has released its path.
C3_Witness ==
    /\ main.pc = "watch"
    /\ out[VideoDest(CMov)] = FileFrom(CMov, TRUE)
    /\ tasks[CMov] = <<>>
    /\ CMov \notin in_progress

\* C4: while a path P is held, P has exactly one task; no step that leaves P
\* held starts another one, and a _schedule call that finds P held returns
\* with the in-progress set and the threads as they were.
C4_HeldPathDropsEvents ==
    [][ /\ \A p \in in_progress :
             /\ Len(tasks[p]) = 1
             /\ p \in in_progress' => Len(tasks'[p]) = 1
        /\ last' = "dropped" => UNCHANGED <<in_progress, tasks>> ]_vars

\* An event for the image arrived while its task, started by an earlier
\* event, was some polls into its stabilization wait.
C4_Witness ==
    /\ last = "dropped"
    /\ in_progress = {AJpg}
    /\ Len(tasks[AJpg]) = 1
    /\ tasks[AJpg][1].pc = "wait"
    /\ tasks[AJpg][1].w.elapsed > 1

\* The frame of the converter the bulk pass is in, if any.
BulkFrames == { tasks[MainKey][i] : i \in 1..Len(tasks[MainKey]) }

\* C5 (as claimed): in a second run of the bulk pass the capability is invoked
\* for no file and every file processed ends as skipped_existing.
C5_SecondRunSkipsAll ==
    main.run >= 2 =>
        /\ \A f \in BulkFrames : f.pc \notin CapabilityPcs
        /\ \A r \in main.results : r[2] = "skipped_existing"

\* C5 (amended): in a second run of the bulk pass the capability is invoked
\* only for a file whose conversion failed in an earlier run and only while
\* no file is at its destination; every other file processed ends as
\* skipped_existing.
C5_SecondRunSkipsConverted ==
    main.run >= 2 =>
        /\ \A f \in BulkFrames :
              /\ f.pc \in CapabilityPcs => f.path \in main.failed
              /\ f.pc \in {"img_save", "vid_run"} => out[Dest(f)] = NoFile
        /\ \A r \in main.results :
              r[2] = "skipped_existing" \/ r[1] \in main.failed

\* The second run has skipped the image converted by the first and is
\* transcoding again the video whose transcoding failed in the first.
C5_Witness ==
    /\ main.run = 2
    /\ <<ABmp, "skipped_existing">> \in main.results
    /\ CMov \in main.failed
    /\ \E f \in BulkFrames : f.path = CMov /\ f.pc = "vid_run"

\* C6 (as claimed): no file whose name begins with a dot is passed to a
\* converter, and no output file is made from one.
C6_HiddenNeverConverted ==
    /\ \A k \in Keys : \A i \in 1..Len(tasks[k]) :
          tasks[k][i].pc \in ConverterPcs => ~StartsWithDot(tasks[k][i].path)
    /\ \A d \in Dests : out[d] # NoFile => ~StartsWithDot(out[d].src)

\* C7 (as claimed): wait_for_file_ready returns true only when the last
\* stable_checks + 1 polls all found the file, with the same size greater
\* than zero, no missing-file poll among them.
C7_MissingPollBreaksRun ==
    probe.w.ret = "true" =>
        LET n == Len(probe.obs)
            c == probe.w.stable_checks
        IN  /\ n > c
            /\ \A j \in (n - c)..n : probe.obs[j] = probe.obs[n] /\ probe.obs[j] > 0

\* The sizes the polls observed: the polls that found the file.
ObservedSizes(obs) == SelectSeq(obs, LAMBDA ob : ob >= 0)

\* The sizes s hold c + 1 consecutive equal sizes greater than zero: c polls
\* in a row whose size equals the previously observed one.
HasStableRun(s, c) ==
    \E i \in 1..(Len(s) - c) :
        s[i] > 0 /\ \A j \in i..(i + c) : s[j] = s[i]

\* C8: wait_for_file_ready has returned true exactly when the observed sizes
\* hold a run of stable_checks polls equal to the previously observed size
\* and greater than zero (so it returned at the first such run); a file that
\* is empty at every poll, or whose size differs between every two
\* consecutive observations, does not yield true.
C8_TrueIffStableRun ==
    LET s == ObservedSizes(probe.obs)
    IN  /\ probe.w.ret = "true" <=> HasStableRun(s, probe.w.stable_checks)
        /\ (\A j \in 1..Len(s) : s[j] = 0) => probe.w.ret # "true"
        /\ (\A j \in 1..(Len(s) - 1) : s[j] # s[j + 1]) => probe.w.ret # "true"

\* The size changed after the first polls and then held for stable_checks
\* polls: true on the last poll the timeout allows.
C8_Witness ==
    /\ probe.w.ret = "true"
    /\ probe.w.stable_checks = StableChecks
    /\ Len(probe.obs) = ProbePolls
    /\ probe.obs[1] > 0
    /\ probe.obs[1] # probe.obs[2]

\* C9: a worker's stabilization wait never runs past its timeout and ends
\* whenever the worker keeps running; when it returns false the task is
\* Unstable, the timeout has elapsed, and the task's only further step is its
\* release: it never enters a converter.
C9_WaitIsTimeBounded ==
    /\ [][ \A p \in Entries : \A i \in 1..Len(tasks'[p]) :
             LET g == tasks'[p][i]
             IN  /\ g.w.elapsed <= g.w.timeout
                 /\ g.outcome = "unstable" =>
                       /\ g.pc = "finally"
                       /\ g.w.ret = "false"
                       /\ g.w.elapsed = g.w.timeout
                 /\ g.pc \in ConverterPcs \cup {"classify"} => g.w.ret = "true" ]_vars
    /\ \A p \in Entries :
          []<>(\A i \in 1..Len(tasks[p]) : tasks[p][i].pc # "wait")

\* A task has timed out on a file that kept changing between the polls.
C9_Witness ==
    \E p \in Entries :
        /\ Len(tasks[p]) = 1
        /\ tasks[p][1].outcome = "unstable"
        /\ tasks[p][1].w.last_size > 0
        /\ fs[p] # tasks[p][1].w.last_size
        /\ out = [d \in Dests |-> NoFile]

\* C10 (as claimed): the bulk pass hands a file to a converter only after a
\* wait_for_file_ready call for it has returned true.
C10_BulkWaitsForStability ==
    \A f \in BulkFrames : f.pc \in ConverterPcs => f.w.ret = "true"

\* C11 (as claimed): no error raised while one file is handled reaches the
\* top-level control flow of main(), in the worker tasks and in the bulk pass.
C11_ErrorsContained == main.pc # "crashed"

\* C12: whenever convert_video_to_mp4 returns after the transcoder had started
\* and the outcome is failed (a worker's frame reaches its finally block, the
\* bulk pass records the result), no file is at the source's destination.
C12_FailedLeavesNoOutput ==
    [][ \A k \in Keys : \A i \in 1..Len(tasks[k]) :
          LET f == tasks[k][i]
          IN  f.pc = "vid_running" =>
                /\ ( /\ k # MainKey
                     /\ Len(tasks'[k]) >= i
                     /\ tasks'[k][i].outcome = "failed" )
                   => out'[VideoDest(f.path)] = NoFile
                /\ ( /\ k = MainKey
                     /\ tasks'[k] = <<>>
                     /\ <<f.path, "failed">> \in main'.results )
                   => out'[VideoDest(f.path)] = NoFile ]_vars

\* The transcoder had opened its output and then failed on the video: the
\* worker is in its finally block and the destination is empty.
C12_Witness ==
    /\ Len(tasks[CMov]) = 1
    /\ tasks[CMov][1].pc = "finally"
    /\ tasks[CMov][1].outcome = "failed"
    /\ tasks[CMov][1].w.ret = "true"
    /\ out[VideoDest(CMov)] = NoFile
    /\ "videos" \in dirs

\* C13: while the observer runs, a call of on_created or on_modified can
\* complete at once for every entry, whatever the worker tasks are doing; and
\* the call itself leaves every running frame, the outputs and the output
\* directories as they were, the only frame it may add being a new one that
\* has not polled yet: stabilization and conversion are steps of the task.
C13_HandlerNeverBlocks ==
    /\ [](main.pc = "watch" =>
            \A p \in Entries : ENABLED OnCreated(p) /\ ENABLED OnModified(p))
    /\ [][ last' # "none" =>
             /\ UNCHANGED <<out, dirs, fs>>
             /\ \A p \in Entries :
                   /\ Len(tasks'[p]) >= Len(tasks[p])
                   /\ \A i \in 1..Len(tasks[p]) : tasks'[p][i] = tasks[p][i]
                   /\ \A i \in (Len(tasks[p]) + 1)..Len(tasks'[p]) :
                         tasks'[p][i] = NewFrame(p, "wait") ]_vars

\* An event for the image has just been accepted while the video's task is
\* in a transcoding that has not returned.
C13_Witness ==
    /\ last = "started"
    /\ Len(tasks[CMov]) = 1
    /\ tasks[CMov][1].pc = "vid_running"
    /\ tasks[AJpg] = <<NewFrame(AJpg, "wait")>>

\* C14 (as claimed): after the interrupt the observer is stopped and joined
\* before the process ends, and no task in flight is cancelled: a frame goes
\* only by the release in its own finally block, at shutdown too.
C14_TasksNotCancelled ==
    [][ /\ main'.pc = "exited" => main.pc \in {"stopped", "exited"}
        /\ \A p \in Entries :
              Len(tasks'[p]) < Len(tasks[p]) =>
                 \E i \in 1..Len(tasks[p]) : tasks[p][i].pc = "finally" ]_vars

\* The class of a name under the configuration: image when its lower-cased
\* suffix is in the image set, else video when it is in the video set.
ClassOf(name) ==
    LET sfx == lower(suffix(name))
    IN  IF sfx \in config.image_exts THEN "image"
        ELSE IF sfx \in config.video_exts THEN "video"
        ELSE "none"

C16_EventuallyConverted ==
    [](\A i \in 1..Len(tasks[AJpg]) :
          tasks[AJpg][i].outcome \notin {"failed", "raised"})
    => []( (last \in {"started", "dropped"} /\ [](fs[AJpg] = 1))
              => <>(out[ImageDest(AJpg)] # NoFile) )

\* C17: a step of a worker task whose wait_for_file_ready call has not
\* returned true changes neither the output files nor the output directories;
\* a task is in a converter only after that call returned true, and then the
\* directory of its converter exists; the step in which the call returns
\* false makes the task Unstable, its next step being the release.
C17_StableBeforeConversion ==
    [][ \A p \in Entries : \A i \in 1..Len(tasks[p]) :
          LET f == tasks[p][i]
              gone == Len(tasks'[p]) < i
              moved == IF gone THEN TRUE ELSE tasks'[p][i] # f
          IN  /\ (moved /\ f.w.ret # "true") => UNCHANGED <<out, dirs>>
              /\ f.pc \in ConverterPcs =>
                    /\ f.w.ret = "true"
                    /\ (IF f.pc \in {"img_check", "img_save"}
                        THEN "images" ELSE "videos") \in dirs
              /\ (~gone /\ moved /\ tasks'[p][i].w.ret = "false") =>
                    /\ tasks'[p][i].pc = "finally"
                    /\ tasks'[p][i].outcome = "unstable" ]_vars

\* The image's task has timed out with nothing written for it and no image
\* directory made, while the video's task, whose wait returned true, is in
\* the video converter.
C17_Witness ==
    /\ Len(tasks[AJpg]) = 1
    /\ tasks[AJpg][1].pc = "finally"
    /\ tasks[AJpg][1].w.ret = "false"
    /\ out[ImageDest(AJpg)] = NoFile
    /\ dirs = {"videos"}
    /\ Len(tasks[CMov]) = 1
    /\ tasks[CMov][1].pc = "vid_run"
    /\ tasks[CMov][1].w.ret = "true"

\* The filter turns an event for p away: the suffix is in neither set, the
\* name begins with a dot, nothing is at the path, or it is a directory.
Rejectable(p) ==
    \/ LowerSuffix[p] \notin config.image_exts \cup config.video_exts
    \/ StartsWithDot(p)
    \/ ~exists(p)
    \/ p \in DirEntries

\* C18: a created or modified event for a path the filter turns away is
\* rejected, and a rejected event leaves the in-progress set, the threads,
\* the outputs, the output directories and the input directory as they were.
C18_RejectionHasNoEffect ==
    [][ /\ \A p \in Entries :
              (Rejectable(p) /\ (OnCreated(p) \/ OnModified(p))) => last' = "rejected"
        /\ last' = "rejected" => UNCHANGED <<in_progress, tasks, out, dirs, fs>> ]_vars

\* An event has just been rejected while the image is not in the input
\* directory and the video's task is transcoding.
C18_Witness ==
    /\ last = "rejected"
    /\ fs[AJpg] = NotFound
    /\ in_progress = {CMov}
    /\ Len(tasks[CMov]) = 1
    /\ tasks[CMov][1].pc = "vid_running"
    /\ tasks[AJpg] = <<>>

\* C19: until process_existing_files has returned no event has been handled,
\* the in-progress set is empty and no worker thread exists; hence whenever
\* the bulk pass is in a converter no worker task is, for any file.
C19_BulkBeforeWatching ==
    /\ main.pc \in {"start", "bulk", "convert"} =>
          /\ last = "none"
          /\ in_progress = {}
          /\ \A p \in Entries : tasks[p] = <<>>
    /\ tasks[MainKey] # <<>> =>
          /\ main.pc = "convert"
          /\ \A p \in Entries : tasks[p] = <<>>
    /\ (\E p \in Entries : tasks[p] # <<>>) =>
          /\ main.pc = "watch"
          /\ tasks[MainKey] = <<>>

\* The bulk pass has converted the video and returned; an event for the same
\* file has then started a task, which is at the video converter's
\* existence test.
C19_Witness ==
    /\ ~config.no_process_existing
    /\ main.pc = "watch"
    /\ <<CMov, "converted">> \in main.results
    /\ CMov \in in_progress
    /\ Len(tasks[CMov]) = 1
    /\ tasks[CMov][1].pc = "vid_check"

\* C20: a poll of the image's task that finds no file, stat raising nothing
\* else, keeps the task in its wait with one more interval slept and no
\* progress towards stability, the path held; only the poll at the deadline
\* ends the wait, as Unstable, the next step being the release and no
\* converter entered. An event for the missing file starts nothing. Once the
\* file is gone for good the path is released and stays released.
C20_MissingFileTimesOut ==
    /\ [][ /\ \A i \in 1..Len(tasks[AJpg]) :
                LET f == tasks[AJpg][i]
                    gone == Len(tasks'[AJpg]) < i
                    g == tasks'[AJpg][i]
                IN  (f.pc = "wait" /\ ~exists(AJpg) /\ (gone \/ g # f)) =>
                       /\ ~gone
                       /\ AJpg \in in_progress'
                       /\ g.outcome # "raised" =>
                             IF f.w.elapsed < f.w.timeout
                             THEN /\ g.pc = "wait"
                                  /\ g.w.ret = "running"
                                  /\ g.w.elapsed = f.w.elapsed + 1
                                  /\ g.w.stable_count <= f.w.stable_count
                             ELSE /\ g.pc = "finally"
                                  /\ g.outcome = "unstable"
                                  /\ g.w.ret = "false"
           /\ (~exists(AJpg) /\ last' # "none") =>
                 last' = "rejected" /\ UNCHANGED <<in_progress, tasks>> ]_vars
    /\ <>[](fs[AJpg] = NotFound) => <>[](AJpg \notin in_progress)

\* The image was removed before its task's first poll and that task has
\* timed out, still holding the path; an event for the missing file has just
\* been turned away.
C20_Witness ==
    /\ fs[AJpg] = NotFound
    /\ last = "rejected"
    /\ AJpg \in in_progress
    /\ Len(tasks[AJpg]) = 1
    /\ tasks[AJpg][1].outcome = "unstable"
    /\ tasks[AJpg][1].w.last_size = InitialLastSize
    /\ tasks[AJpg][1].w.elapsed = TimeoutPolls
====
